---- MODULE Spec2Model ----
(***************************************************************************)
(* A model of fastapi_react_admin.ReactAdmin: eight route handlers bound   *)
(* to one table, each running one statement (and, for writes, one commit)  *)
(* inside `async with self.Session() as session`.                          *)
(*                                                                         *)
(* The table has the columns id (primary key), title and is_deleted (the   *)
(* column a soft-delete configuration names).  The backing store is        *)
(* modelled as far as the handlers use it: equality filters, ORDER BY,     *)
(* IN, RETURNING, primary-key lookup, row locks held by an open            *)
(* transaction until it commits or rolls back.                             *)
(***************************************************************************)
EXTENDS Integers, Sequences, FiniteSets, TLC

\* ------------------------------------------------------------------ bounds
MaxId == 2          \* primary keys are 1..MaxId
MaxOffset == 2      \* range offsets are 0..MaxOffset
MaxIdList == 2      \* filter['id'] holds at most MaxIdList ids

Ids == 1..MaxId
Titles == {"a", "b"}
Clients == {"c1", "c2"}

\* ------------------------------------------------------------- rows, maps
\* Python's None: an absent row, an unset envelope field.
None == [id |-> 0, title |-> "", is_deleted |-> FALSE]
NoTotal == -1

Rows == [id : Ids, title : Titles, is_deleted : BOOLEAN]

\* A JSON object over the table's columns: the keys it has, and their values
\* (a key it lacks keeps the value of None).
EmptyMap == [keys |-> {}, id |-> 0, title |-> "", is_deleted |-> FALSE]

MapSet(m, k, v) == [m EXCEPT !.keys = @ \cup {k}, ![k] = v]

Min(a, b) == IF a < b THEN a ELSE b
Max(a, b) == IF a > b THEN a ELSE b

\* ----------------------------------------------------------- configuration
NoField == "None"
FlagField == "is_deleted"

VARIABLES
    deleted_filed,      \* self.deleted_filed: NoField or the flag column's name
    exclude_deleted,    \* self.exclude_deleted
    db,                 \* the committed table: id -> row or None
    sessions,           \* the clients whose request holds a session
    req,                \* per client: the request in flight, its position and its response
    before,             \* history: the committed table when the request in flight began
    tomb                \* history: the row last removed by Delete, and what became of it

vars == <<deleted_filed, exclude_deleted, db, sessions, req, before, tomb>>

\* if self.deleted_filed and self.exclude_deleted
Excluding == deleted_filed # NoField /\ exclude_deleted

\* ------------------------------------------------------------ the statements
\* The fault of a filter whose keys are OR-combined.
FilterByAnyKey(row, filter) == filter.keys = {} \/ \E k \in filter.keys : row[k] = filter[k]

\* filter_by(**filter): every key of the filter equals the row's column.
FilterBy(row, filter) == \A k \in filter.keys : row[k] = filter[k]

\* select(self.table).filter_by(**filter): the rows of t the filter keeps.
SelectFilterBy(t, filter) == {t[i] : i \in {j \in Ids : t[j] # None /\ FilterBy(t[j], filter)}}

\* select(self.table).where(self.table.id.in_(ids)).filter_by(**filter)
SelectIdIn(t, ids, filter) ==
    {r \in SelectFilterBy(t, filter) : \E n \in 1..Len(ids) : ids[n] = r.id}

TitleRank(s) == IF s = "a" THEN 1 ELSE IF s = "b" THEN 2 ELSE 0

SortKey(row, field) == IF field = "id" THEN row.id ELSE TitleRank(row.title)

\* ORDER BY <field> <direction>: row a may stand before row b.
InOrder(a, b, sort) ==
    IF sort[2] = "ASC" THEN SortKey(a, sort[1]) <= SortKey(b, sort[1])
    ELSE SortKey(a, sort[1]) >= SortKey(b, sort[1])

\* Every order in which the store may hand out the rows of a set.
Listings(S) ==
    {s \in [1..Cardinality(S) -> S] : \A i, j \in 1..Cardinality(S) : i # j => s[i] # s[j]}

\* .order_by(text(f"{sort[0]} {sort[1]}")): the listings ORDER BY allows; rows
\* with equal keys come in an order the store chooses.
OrderBy(S, sort) ==
    {s \in Listings(S) : \A i, j \in 1..Cardinality(S) : i < j => InOrder(s[i], s[j], sort)}

\* result[lo:hi] for lo, hi >= 0.
PySlice(s, lo, hi) ==
    LET a == Min(lo, Len(s))
        b == Max(a, Min(hi, Len(s)))
    IN  [i \in 1..(b - a) |-> s[a + i]]

\* session.get(self.table, id)
Get(t, id) == t[id]

\* values(**payload) on one row.
Assign(row, payload) ==
    [id |-> row.id,
     title |-> IF "title" \in payload.keys THEN payload.title ELSE row.title,
     is_deleted |-> IF "is_deleted" \in payload.keys THEN payload.is_deleted ELSE row.is_deleted]

\* The fault of a where clause that also skips the rows flagged deleted.
MatchedUnflagged(t, idset) ==
    {i \in idset : t[i] # None /\ ~(Excluding /\ t[i].is_deleted)}

\* where(self.table.id == id), where(self.table.id.in_(ids)): the rows matched.
Matched(t, idset) == {i \in idset : t[i] # None}

\* The fault of an update that inserts the rows it does not find.
UpsertRows(t, idset, payload) ==
    [i \in Ids |-> IF i \in idset
                   THEN Assign(IF t[i] = None THEN [None EXCEPT !.id = i, !.title = "a"] ELSE t[i],
                               payload)
                   ELSE t[i]]

\* update(self.table).values(**payload).where(...)
UpdateRows(t, idset, payload) ==
    [i \in Ids |-> IF i \in Matched(t, idset) THEN Assign(t[i], payload) ELSE t[i]]

\* delete(self.table).where(...)
DeleteRows(t, idset) == [i \in Ids |-> IF i \in idset THEN None ELSE t[i]]

\* insert(self.table).values(**payload) with the primary key i: columns the
\* payload lacks take the store's defaults.
NewRow(i, payload) ==
    [id |-> i,
     title |-> payload.title,
     is_deleted |-> IF "is_deleted" \in payload.keys THEN payload.is_deleted ELSE FALSE]

InsertRow(t, row) == [t EXCEPT ![row.id] = row]

ElemsOf(ids) == {ids[n] : n \in 1..Len(ids)}

\* --------------------------------------------------------------- requests
\* A client with no request in flight; also the shape of every request record.
\* kind tells which envelope field holds data: data_row (a row or None),
\* data_rows (a sequence of rows) or data_ids (the id list of the filter).
IdleReq ==
    [pc |-> "idle", op |-> "none",
     id |-> 0, ids |-> <<>>, filter |-> EmptyMap, sort |-> <<"id", "ASC">>,
     range |-> <<0, 0>>, payload |-> EmptyMap,
     wset |-> {}, rows |-> [i \in Ids |-> None],
     kind |-> "none", data_row |-> None, data_rows |-> <<>>, data_ids |-> <<>>,
     total |-> NoTotal, execs |-> 0, commits |-> 0]

Ops == {"get_list", "get_one", "get_many", "create", "update", "update_many",
        "delete", "delete_many"}

IsWrite(op) == op \in {"create", "update", "update_many", "delete", "delete_many"}

\* The rows other clients' open transactions have written and not yet committed.
Locked(c) == UNION {req[o].wset : o \in Clients \ {c}}

\* A transaction's own writes: the rows of new it wrote.
Pending(new, wset) == [i \in Ids |-> IF i \in wset THEN new[i] ELSE None]

\* --------------------------------------------------------------- handlers
\* Each handler action runs from the request's arrival through
\* `async with self.Session() as session` and the awaited session.execute
\* (session.get for _get_one); a write then awaits session.commit (Commit),
\* and the handler returns (Respond).

\* The handler of call ran its reading statement and holds the response.
Read(c, call, kind, row, rows, total) ==
    /\ req[c].pc = "idle"
    /\ req' = [req EXCEPT ![c] = [call EXCEPT !.pc = "executed", !.execs = 1,
                                             !.kind = kind, !.data_row = row,
                                             !.data_rows = rows, !.total = total]]
    /\ sessions' = sessions \cup {c}
    /\ UNCHANGED <<deleted_filed, exclude_deleted, db>>

\* The handler of call ran its writing statement inside its transaction: the
\* statement turned the table into new by writing the rows wset, which stay
\* locked until the transaction ends.
Wrote(c, call, new, wset, kind, row, ids) ==
    /\ req[c].pc = "idle"
    /\ wset \cap Locked(c) = {}
    /\ req' = [req EXCEPT ![c] = [call EXCEPT !.pc = "executed", !.execs = 1,
                                             !.wset = wset, !.rows = Pending(new, wset),
                                             !.kind = kind, !.data_row = row,
                                             !.data_ids = ids]]
    /\ sessions' = sessions \cup {c}
    /\ UNCHANGED <<deleted_filed, exclude_deleted, db>>

\* The fault of an exclusion that yields to the caller's own value
\* (filter.setdefault).
InjectUnlessGiven(filter) ==
    IF Excluding /\ deleted_filed \notin filter.keys
    THEN MapSet(filter, deleted_filed, FALSE) ELSE filter

\* filter[self.deleted_filed] = False, when soft-deleted rows are excluded.
InjectExclusion(filter) ==
    IF Excluding THEN MapSet(filter, deleted_filed, FALSE) ELSE filter

\* The fault of a page sliced half-open: result[range_[0]:range_[1]].
HalfOpenPage(result, range) == PySlice(result, range[1], range[2])

\* result[range_[0]:range_[1] + 1]
Page(result, range) == PySlice(result, range[1], range[2] + 1)

\* total=len(result)
Total(result) == Len(result)

get_list(c, sort, filter, range) ==
    /\ req[c].pc = "idle"
    /\ \E result \in OrderBy(SelectFilterBy(db, InjectExclusion(filter)), sort) :
        Read(c, [IdleReq EXCEPT !.op = "get_list", !.sort = sort, !.filter = filter,
                                !.range = range],
             "rows", None, Page(result, range), Total(result))

get_one(c, id) ==
    Read(c, [IdleReq EXCEPT !.op = "get_one", !.id = id], "row", Get(db, id), <<>>, NoTotal)

get_many(c, ids) ==
    /\ req[c].pc = "idle"
    /\ \E result \in Listings(SelectIdIn(db, ids, InjectExclusion(EmptyMap))) :
        Read(c, [IdleReq EXCEPT !.op = "get_many", !.ids = ids], "rows", None, result, NoTotal)

\* The fault of a handler that answers with the row as the table held it
\* before the statement.
RowBeforeStatement(t, id) == db[id]

\* result.scalar() of a statement RETURNING the row it wrote, by one id.
Scalar(t, id) == t[id]

\* The primary keys the store may give a row inserted without one.
FreeIds(c) == {i \in Ids : db[i] = None /\ i \notin Locked(c)}

create(c, payload) ==
    /\ req[c].pc = "idle"
    /\ \E i \in Ids :
        /\ db[i] = None
        /\ IF "id" \in payload.keys THEN i = payload.id ELSE i \in FreeIds(c)
        /\ LET new == InsertRow(db, NewRow(i, payload))
           IN  Wrote(c, [IdleReq EXCEPT !.op = "create", !.payload = payload],
                     new, {i}, "row", Scalar(new, i), <<>>)

update(c, id, payload) ==
    LET new == UpdateRows(db, {id}, payload)
    IN  Wrote(c, [IdleReq EXCEPT !.op = "update", !.id = id, !.payload = payload],
              new, Matched(db, {id}), "row", Scalar(new, id), <<>>)

\* The fault of a handler that answers with the ids of the rows it changed.
IdsOfRowsWritten(ids, wset) == SelectSeq(ids, LAMBDA i : i \in wset)

\* data=filter['id']
ReturnedIds(ids, wset) == ids

update_many(c, payload, ids) ==
    LET new == UpdateRows(db, ElemsOf(ids), payload)
        wset == Matched(db, ElemsOf(ids))
    IN  Wrote(c, [IdleReq EXCEPT !.op = "update_many", !.ids = ids, !.payload = payload],
              new, wset, "ids", None, ReturnedIds(ids, wset))

\* The fault of a delete that ignores the soft-delete configuration.
AlwaysDeleteRows(t, idset) == DeleteRows(t, idset)

\* req of _delete and _delete_many: a DELETE, or an UPDATE setting the flag.
DeleteStatement(t, idset) ==
    IF deleted_filed = NoField THEN DeleteRows(t, idset)
    ELSE UpdateRows(t, idset, MapSet(EmptyMap, deleted_filed, TRUE))

\* RETURNING of that statement by one id: the row deleted, or the row flagged.
DeleteReturning(t, new, id) == IF deleted_filed = NoField THEN t[id] ELSE new[id]

delete(c, id) ==
    LET new == DeleteStatement(db, {id})
    IN  Wrote(c, [IdleReq EXCEPT !.op = "delete", !.id = id],
              new, Matched(db, {id}), "row", DeleteReturning(db, new, id), <<>>)

delete_many(c, ids) ==
    LET new == DeleteStatement(db, ElemsOf(ids))
        wset == Matched(db, ElemsOf(ids))
    IN  Wrote(c, [IdleReq EXCEPT !.op = "delete_many", !.ids = ids],
              new, wset, "ids", None, ReturnedIds(ids, wset))

\* await session.commit(): the transaction's writes reach the table.
Commit(c) ==
    /\ req[c].pc = "executed" /\ IsWrite(req[c].op)
    /\ db' = [i \in Ids |-> IF i \in req[c].wset THEN req[c].rows[i] ELSE db[i]]
    /\ req' = [req EXCEPT ![c].pc = "committed", ![c].commits = @ + 1,
                          ![c].wset = {}, ![c].rows = IdleReq.rows]
    /\ UNCHANGED <<deleted_filed, exclude_deleted, sessions>>

\* The fault of a writing handler that returns without its commit.
AtReturnUncommitted(c) == req[c].pc \in {"executed", "committed"}

\* The handler has reached its return statement.
AtReturn(c) ==
    IF IsWrite(req[c].op) THEN req[c].pc = "committed" ELSE req[c].pc = "executed"

\* Leaving `async with` by return: the session is closed.
ExitOnReturn(held, c) == held \ {c}

\* The fault of a session closed by hand on the returning path only.
StayOpenOnError(held, c) == held

\* Leaving `async with` by an exception: the session is closed.
ExitOnError(held, c) == held \ {c}

\* return RaResponseModel(...)
Respond(c) ==
    /\ AtReturn(c)
    /\ req' = [req EXCEPT ![c].pc = "done"]
    /\ sessions' = ExitOnReturn(sessions, c)
    /\ UNCHANGED <<deleted_filed, exclude_deleted, db>>

\* insert of a primary key the table already holds: session.execute raises.
IntegrityError(c, payload) ==
    /\ req[c].pc = "idle"
    /\ "id" \in payload.keys /\ db[payload.id] # None
    /\ req' = [req EXCEPT ![c] = [IdleReq EXCEPT !.pc = "failed", !.op = "create",
                                                 !.payload = payload]]
    /\ sessions' = ExitOnError(sessions \cup {c}, c)
    /\ UNCHANGED <<deleted_filed, exclude_deleted, db>>

\* session.execute raises (the connection is lost) in the handler of op.
ExecuteFault(c, op) ==
    /\ req[c].pc = "idle"
    /\ req' = [req EXCEPT ![c] = [IdleReq EXCEPT !.pc = "failed", !.op = op]]
    /\ sessions' = ExitOnError(sessions \cup {c}, c)
    /\ UNCHANGED <<deleted_filed, exclude_deleted, db>>

\* session.commit raises: the transaction is rolled back.
CommitFault(c) ==
    /\ req[c].pc = "executed" /\ IsWrite(req[c].op)
    /\ req' = [req EXCEPT ![c] = [IdleReq EXCEPT !.pc = "failed", !.op = req[c].op,
                                                 !.execs = req[c].execs]]
    /\ sessions' = ExitOnError(sessions, c)
    /\ UNCHANGED <<deleted_filed, exclude_deleted, db>>

\* The response (or the error) has gone to the client.
Deliver(c) ==
    /\ req[c].pc \in {"done", "failed"}
    /\ req' = [req EXCEPT ![c] = IdleReq]
    /\ UNCHANGED <<deleted_filed, exclude_deleted, db, sessions>>

\* ----------------------------------------------------------------- inputs
WithTitle(m, t) == IF t = "" THEN m ELSE MapSet(m, "title", t)
WithFlag(m, f) == IF f = "none" THEN m ELSE MapSet(m, FlagField, f = "true")
WithId(m, i) == IF i = 0 THEN m ELSE MapSet(m, "id", i)

\* Every filter, sort, range, id list and payload within the bounds.
Filters == {WithFlag(WithTitle(EmptyMap, t), f) : t \in Titles \cup {""}, f \in {"none", "true", "false"}}
Sorts == {<<f, d>> : f \in {"id", "title"}, d \in {"ASC", "DESC"}}
Ranges == {<<s, e>> : s \in 0..MaxOffset, e \in 0..MaxOffset}
IdLists == UNION {[1..n -> Ids] : n \in 0..MaxIdList}
UpdatePayloads == Filters \ {EmptyMap}
CreatePayloads ==
    {WithId(WithFlag(MapSet(EmptyMap, "title", t), f), i) :
        t \in Titles, f \in {"none", "true", "false"}, i \in 0..MaxId}

\* A few of them: what fills and empties the table while the other handlers
\* are exercised in full.
FewIdLists == UNION {[1..n -> Ids] : n \in 0..1}
FewUpdatePayloads ==
    {MapSet(EmptyMap, "title", "a"), MapSet(EmptyMap, FlagField, FALSE),
     MapSet(EmptyMap, FlagField, TRUE)}
FewCreatePayloads ==
    {WithId(WithFlag(MapSet(EmptyMap, "title", t), f), i) :
        t \in Titles, f \in {"none", "true"}, i \in 0..MaxId}

\* The inputs of clients working side by side on the same rows: the first
\* and the last id.
SharedIds == {1, MaxId}
SharedIdLists == UNION {[1..n -> SharedIds] : n \in 0..1}
SharedCreatePayloads == {WithId(MapSet(EmptyMap, "title", "a"), i) : i \in {0} \cup SharedIds}
SharedUpdatePayloads == {MapSet(EmptyMap, FlagField, FALSE)}
WholeRange == <<0, MaxOffset>>
ById == <<"id", "ASC">>

\* ---------------------------------------------------------------- history
NoTomb == [id |-> 0, state |-> "none"]

\* What undoes a Delete of row i: a row with that id exists again (the row
\* was removed), or its flag is false again (the row was flagged).
Revived(t, i) ==
    IF deleted_filed = NoField THEN t[i] # None ELSE ~t[i].is_deleted

\* before: the table as the request of c found it.  tomb: the id of the last
\* row a Delete of c removed or flagged ("deleted"), until a later write
\* revives it ("revived").
Track(c) ==
    /\ before' = IF req[c].pc = "idle" \/ req'[c].pc = "idle" THEN db ELSE before
    /\ tomb' = IF req[c].pc = "executed" /\ req'[c].pc = "committed"
               THEN IF req[c].op = "delete" /\ req[c].wset # {}
                    THEN [id |-> req[c].id, state |-> "deleted"]
                    ELSE IF tomb.state = "deleted" /\ Revived(db', tomb.id)
                         THEN [tomb EXCEPT !.state = "revived"]
                         ELSE tomb
               ELSE tomb

NoTrack == UNCHANGED <<before, tomb>>

\* ---------------------------------------------------------- specifications
Init ==
    /\ deleted_filed \in {NoField, FlagField}
    /\ exclude_deleted \in BOOLEAN
    /\ db = [i \in Ids |-> None]
    /\ sessions = {}
    /\ req = [c \in Clients |-> IdleReq]
    /\ before = db
    /\ tomb = NoTomb

Solo == "c1"

\* No request of c is in flight: its next one may arrive.
Idle(c) == req[c].pc = "idle"

\* One client, one request after the other; every payload of Create and
\* Update, every id list, a few payloads of UpdateMany; the store does not fail.
Next ==
    \/ Idle(Solo) /\ get_list(Solo, ById, EmptyMap, WholeRange) /\ Track(Solo)
    \/ Idle(Solo) /\ \E id \in Ids : get_one(Solo, id) /\ Track(Solo)
    \/ Idle(Solo) /\ \E ids \in FewIdLists : get_many(Solo, ids) /\ Track(Solo)
    \/ Idle(Solo) /\ \E payload \in CreatePayloads : create(Solo, payload) /\ Track(Solo)
    \/ Idle(Solo) /\ \E payload \in CreatePayloads : IntegrityError(Solo, payload) /\ Track(Solo)
    \/ Idle(Solo) /\ \E id \in Ids, payload \in UpdatePayloads :
          update(Solo, id, payload) /\ Track(Solo)
    \/ Idle(Solo) /\ \E payload \in FewUpdatePayloads, ids \in IdLists :
          update_many(Solo, payload, ids) /\ Track(Solo)
    \/ Idle(Solo) /\ \E id \in Ids : delete(Solo, id) /\ Track(Solo)
    \/ Idle(Solo) /\ \E ids \in IdLists : delete_many(Solo, ids) /\ Track(Solo)
    \/ Commit(Solo) /\ Track(Solo)
    \/ Respond(Solo) /\ Track(Solo)
    \/ Deliver(Solo) /\ Track(Solo)

Spec == Init /\ [][Next]_vars

\* One client, one request after the other; every input of the reading
\* handlers; the store does not fail.
NextReads ==
    \/ Idle(Solo) /\ \E sort \in Sorts, filter \in Filters, range \in Ranges :
          get_list(Solo, sort, filter, range) /\ NoTrack
    \/ Idle(Solo) /\ \E id \in Ids : get_one(Solo, id) /\ NoTrack
    \/ Idle(Solo) /\ \E ids \in IdLists : get_many(Solo, ids) /\ NoTrack
    \/ Idle(Solo) /\ \E payload \in FewCreatePayloads : create(Solo, payload) /\ NoTrack
    \/ Idle(Solo) /\ \E payload \in FewCreatePayloads : IntegrityError(Solo, payload) /\ NoTrack
    \/ Idle(Solo) /\ \E id \in Ids, payload \in FewUpdatePayloads :
          update(Solo, id, payload) /\ NoTrack
    \/ Idle(Solo) /\ \E payload \in FewUpdatePayloads, ids \in FewIdLists :
          update_many(Solo, payload, ids) /\ NoTrack
    \/ Idle(Solo) /\ \E id \in Ids : delete(Solo, id) /\ NoTrack
    \/ Idle(Solo) /\ \E ids \in FewIdLists : delete_many(Solo, ids) /\ NoTrack
    \/ Commit(Solo) /\ NoTrack
    \/ Respond(Solo) /\ NoTrack
    \/ Deliver(Solo) /\ NoTrack

SpecReads == Init /\ [][NextReads]_vars

\* Requests of several clients interleaved at their awaits; session.execute
\* and session.commit may fail.
NextShared ==
    \/ \E c \in Clients : get_list(c, ById, EmptyMap, WholeRange) /\ NoTrack
    \/ \E c \in Clients, id \in SharedIds : get_one(c, id) /\ NoTrack
    \/ \E c \in Clients, ids \in SharedIdLists : get_many(c, ids) /\ NoTrack
    \/ \E c \in Clients, payload \in SharedCreatePayloads : create(c, payload) /\ NoTrack
    \/ \E c \in Clients, payload \in SharedCreatePayloads :
          IntegrityError(c, payload) /\ NoTrack
    \/ \E c \in Clients, id \in SharedIds, payload \in SharedUpdatePayloads :
          update(c, id, payload) /\ NoTrack
    \/ \E c \in Clients, payload \in SharedUpdatePayloads, ids \in SharedIdLists :
          update_many(c, payload, ids) /\ NoTrack
    \/ \E c \in Clients, id \in SharedIds : delete(c, id) /\ NoTrack
    \/ \E c \in Clients, ids \in SharedIdLists : delete_many(c, ids) /\ NoTrack
    \/ \E c \in Clients : Commit(c) /\ NoTrack
    \/ \E c \in Clients : Respond(c) /\ NoTrack
    \/ \E c \in Clients, op \in Ops : ExecuteFault(c, op) /\ NoTrack
    \/ \E c \in Clients : CommitFault(c) /\ NoTrack
    \/ \E c \in Clients : Deliver(c) /\ NoTrack

SpecShared == Init /\ [][NextShared]_vars

\* ----------------------------------------------------------------- claims
Done(c, ops) == req[c].pc = "done" /\ req[c].op \in ops

\* The rows of a response, as a set, and their ids.
Returned(c) == {req[c].data_rows[n] : n \in 1..Len(req[c].data_rows)}
ReturnedRowIds(c) == {r.id : r \in Returned(c)}

Stored(t) == {t[i] : i \in {j \in Ids : t[j] # None}}

SoftDelete == deleted_filed = FlagField

\* Row r has the value map m gives, for every key of m (the keys a filter
\* or a payload may have, one by one).
Agrees(r, m) ==
    /\ "id" \in m.keys => r.id = m.id
    /\ "title" \in m.keys => r.title = m.title
    /\ "is_deleted" \in m.keys => r.is_deleted = m.is_deleted

\* The filter List applies: the caller's, with the flag field forced to false
\* when soft-deleted rows are excluded.
Effective(filter) ==
    IF SoftDelete /\ exclude_deleted
    THEN [filter EXCEPT !.keys = @ \cup {"is_deleted"}, !.is_deleted = FALSE]
    ELSE filter

\* C1: with a soft-delete field configured and exclude-deleted true, every
\* row List or GetMany returns has the flag false, whatever the caller's
\* filter says about the flag and whatever writes came before.
C1_NoFlaggedRowReturned ==
    \A c \in Clients :
        Done(c, {"get_list", "get_many"}) /\ SoftDelete /\ exclude_deleted
            => \A r \in Returned(c) : ~r.is_deleted

\* C1's case: the caller asks List for the flagged rows, the table holds
\* one, and List returns rows.
C1_Witness ==
    /\ Done(Solo, {"get_list"}) /\ SoftDelete /\ exclude_deleted
    /\ "is_deleted" \in req[Solo].filter.keys /\ req[Solo].filter.is_deleted
    /\ \E r \in Stored(db) : r.is_deleted
    /\ Returned(Solo) # {}

\* C3 as stated: List returns only rows that agree with the caller's filter
\* on every key, and total counts the rows that agree with it.
C3_AsStated ==
    \A c \in Clients :
        Done(c, {"get_list"})
            => /\ \A r \in Returned(c) : Agrees(r, req[c].filter)
               /\ req[c].total = Cardinality({r \in Stored(db) : Agrees(r, req[c].filter)})

\* C3 amended: List returns only rows that agree on every key with the
\* filter it applies (the caller's, with the flag field forced to false when
\* soft-deleted rows are excluded), and total counts all the rows that agree
\* with it, whatever the range.
C3_EffectiveFilter ==
    \A c \in Clients :
        Done(c, {"get_list"})
            => /\ \A r \in Returned(c) :
                    r \in Stored(db) /\ Agrees(r, Effective(req[c].filter))
               /\ req[c].total =
                    Cardinality({r \in Stored(db) : Agrees(r, Effective(req[c].filter))})

\* C3's case: a filter of two keys keeps one row and drops another, and the
\* range lies past the row kept.
C3_Witness ==
    /\ Done(Solo, {"get_list"})
    /\ req[Solo].filter.keys = {"title", "is_deleted"}
    /\ req[Solo].total = 1 /\ req[Solo].data_rows = <<>>
    /\ \E r \in Stored(db) : ~Agrees(r, Effective(req[Solo].filter))

\* The rows List's statement selects, and the orders its ORDER BY allows.
Selected(c) == {r \in Stored(db) : Agrees(r, Effective(req[c].filter))}

Sorted(l, sort) ==
    \A i, j \in 1..Len(l) :
        i < j => IF sort[2] = "ASC" THEN SortKey(l[i], sort[1]) <= SortKey(l[j], sort[1])
                 ELSE SortKey(l[i], sort[1]) >= SortKey(l[j], sort[1])

\* C4: for the range [s, e] and the n rows selected, in sort order, List
\* returns the rows at the offsets s..e: e-s+1 of them when n > e, fewer when
\* the rows end before offset e, and for [0, 0] the first row in sort order.
C4_InclusiveRange ==
    \A c \in Clients :
        Done(c, {"get_list"}) =>
            LET s == req[c].range[1]
                e == req[c].range[2]
                n == Cardinality(Selected(c))
                data == req[c].data_rows
            IN  /\ \E l \in Listings(Selected(c)) :
                      /\ Sorted(l, req[c].sort)
                      /\ Len(data) = Cardinality({k \in 0..(n - 1) : s <= k /\ k <= e})
                      /\ \A k \in 1..Len(data) : data[k] = l[s + k]
                /\ s <= e /\ n > e => Len(data) = e - s + 1
                /\ s <= e /\ n <= e => Len(data) < e - s + 1
                /\ s = 0 /\ e = 0 /\ n >= 1 =>
                      /\ Len(data) = 1
                      /\ \A r \in Selected(c) : Sorted(<<data[1], r>>, req[c].sort)

\* C4's case: a page that neither starts at the first row nor is cut short.
C4_Witness ==
    /\ Done(Solo, {"get_list"})
    /\ req[Solo].range = <<1, 1>> /\ req[Solo].total = 2
    /\ Len(req[Solo].data_rows) = 1
    /\ req[Solo].sort = <<"title", "DESC">>

\* The row tomb names: Delete removed or flagged it, at some time
\* (Buried), and no write has revived it since (StillBuried).
Buried(i) == tomb.state # "none" /\ tomb.id = i
StillBuried(i) == tomb.state = "deleted" /\ tomb.id = i

\* C2 as stated: after Delete of an existing row, without a soft-delete
\* field the row is gone and every later GetOne of its id returns null; with
\* one the row stays, flagged, every later GetOne returns it, and no later
\* List or GetMany does.
C2_AsStated ==
    \A i \in Ids :
        Buried(i) =>
            IF ~SoftDelete
            THEN \A c \in Clients : Done(c, {"get_one"}) /\ req[c].id = i
                                        => req[c].data_row = None
            ELSE /\ \A c \in Clients : Done(c, {"get_one"}) /\ req[c].id = i
                                          => req[c].data_row # None /\ req[c].data_row.id = i
                 /\ \A c \in Clients : Done(c, {"get_list", "get_many"})
                                          => i \notin ReturnedRowIds(c)

\* C2 amended: after Delete of an existing row, without a soft-delete field
\* the row is gone, and GetOne of its id returns null until a Create inserts
\* a row with that id; with one the row stays with the flag true, GetOne
\* returns it, and, when exclude-deleted is true, List and GetMany do not,
\* until an Update or UpdateMany sets its flag to false.
C2_DeleteThenRead ==
    \A i \in Ids :
        StillBuried(i) =>
            IF ~SoftDelete
            THEN /\ db[i] = None
                 /\ \A c \in Clients : Done(c, {"get_one"}) /\ req[c].id = i
                                          => req[c].data_row = None
            ELSE /\ db[i] # None /\ db[i].is_deleted
                 /\ \A c \in Clients : Done(c, {"get_one"}) /\ req[c].id = i
                                          => req[c].data_row = db[i]
                 /\ exclude_deleted =>
                        \A c \in Clients : Done(c, {"get_list", "get_many"})
                                              => i \notin ReturnedRowIds(c)

\* C2's case: a row was soft-deleted, and a later List, which excludes it,
\* returns the other row.
C2_Witness ==
    /\ SoftDelete /\ exclude_deleted
    /\ \E i \in Ids : StillBuried(i)
    /\ Done(Solo, {"get_list"}) /\ Returned(Solo) # {}

\* C5: UpdateMany and DeleteMany answer with the id list of the filter as it
\* came (its order, its repeats, the ids of no row, the empty list), and with
\* no total.
C5_IdListEchoed ==
    \A c \in Clients :
        Done(c, {"update_many", "delete_many"})
            => /\ req[c].kind = "ids"
               /\ req[c].data_ids = req[c].ids
               /\ req[c].total = NoTotal

\* C5's case: a list that names one row twice and an id of no row.
C5_Witness ==
    /\ Done(Solo, {"update_many", "delete_many"})
    /\ Len(req[Solo].ids) = 2
    /\ \E i \in ElemsOf(req[Solo].ids) : before[i] = None
    /\ \E i \in ElemsOf(req[Solo].ids) : before[i] # None /\ before[i].is_deleted

\* The request of c has ended: with a response, or with an error.
Ended(c, ops) == req[c].pc \in {"done", "failed"} /\ req[c].op \in ops

\* C6: GetOne, Update and Delete of an id of no row end with the envelope
\* data = null, total = null, not with an error, and leave the table as it was.
C6_AbsentIdIsNull ==
    \A c \in Clients :
        Ended(c, {"get_one", "update", "delete"}) /\ before[req[c].id] = None
            => /\ req[c].pc = "done"
               /\ req[c].kind = "row" /\ req[c].data_row = None
               /\ req[c].total = NoTotal
               /\ db = before

\* C6's case: an Update of an id of no row, while the table holds a row.
C6_Witness ==
    /\ Done(Solo, {"update"}) /\ before[req[Solo].id] = None
    /\ Stored(db) # {}

\* C7: Create answers with the row as the table holds it after the insert:
\* the payload's values, the id and the defaults the store gave; total is
\* null; GetOne of that id, in the table as Create left it, returns that row.
C7_CreateReturnsStoredRow ==
    \A c \in Clients :
        /\ Done(c, {"create"})
              => /\ req[c].kind = "row" /\ req[c].total = NoTotal
                 /\ req[c].data_row \in Rows
                 /\ Agrees(req[c].data_row, req[c].payload)
                 /\ before[req[c].data_row.id] = None
                 /\ db[req[c].data_row.id] = req[c].data_row
                 /\ Get(db, req[c].data_row.id) = req[c].data_row
        /\ Done(c, {"get_one"}) => req[c].data_row = db[req[c].id]

\* C7's case: the payload names neither the id nor the flag, and the store
\* gives the row an id other rows lie before.
C7_Witness ==
    /\ Done(Solo, {"create"})
    /\ req[Solo].payload.keys = {"title"}
    /\ req[Solo].data_row.id = MaxId
    /\ Stored(before) # {}

\* The ids a request is about.
Target(c) ==
    IF req[c].op \in {"get_one", "update", "delete"} THEN {req[c].id}
    ELSE IF req[c].op \in {"update_many", "delete_many"} THEN ElemsOf(req[c].ids)
    ELSE IF req[c].op = "create" /\ req[c].pc = "done" THEN {req[c].data_row.id}
    ELSE {}

\* Row r with the values of payload m.
With(r, m) ==
    [id |-> r.id,
     title |-> IF "title" \in m.keys THEN m.title ELSE r.title,
     is_deleted |-> IF "is_deleted" \in m.keys THEN m.is_deleted ELSE r.is_deleted]

\* C10: GetOne, Create, Update, UpdateMany, Delete and DeleteMany do not
\* filter by the flag: Update and UpdateMany change a flagged row like any
\* other, GetOne returns it, a Delete of it leaves it flagged and returns
\* it; and none of them changes a row the request is not about.
C10_FlagIsNoFilter ==
    \A c \in Clients :
        Ended(c, {"get_one", "create", "update", "update_many", "delete", "delete_many"}) =>
            /\ \A j \in Ids \ Target(c) : db[j] = before[j]
            /\ Done(c, {"get_one"}) => req[c].data_row = before[req[c].id]
            /\ Done(c, {"update"}) /\ before[req[c].id] # None
                  => /\ db[req[c].id] = With(before[req[c].id], req[c].payload)
                     /\ req[c].data_row = db[req[c].id]
            /\ Done(c, {"update_many"})
                  => \A j \in Target(c) :
                        before[j] # None => db[j] = With(before[j], req[c].payload)
            /\ Done(c, {"delete"}) /\ SoftDelete /\ before[req[c].id] # None
                  => /\ db[req[c].id] = [before[req[c].id] EXCEPT !.is_deleted = TRUE]
                     /\ req[c].data_row = db[req[c].id]
            /\ Done(c, {"delete_many"}) /\ SoftDelete
                  => \A j \in Target(c) :
                        before[j] # None => db[j] = [before[j] EXCEPT !.is_deleted = TRUE]

\* C10's case: soft-deleted rows are excluded, and an Update gives a flagged
\* row another title, beside a row it is not about.
C10_Witness ==
    /\ SoftDelete /\ exclude_deleted
    /\ Done(Solo, {"update"})
    /\ before[req[Solo].id] # None /\ before[req[Solo].id].is_deleted
    /\ "title" \in req[Solo].payload.keys
    /\ req[Solo].payload.title # before[req[Solo].id].title
    /\ \E j \in Ids \ {req[Solo].id} : db[j] # None

\* C8: a writing handler that has returned ran one statement and then one
\* commit, and its writes are in the table, none pending, so that every
\* request that begins later reads them; before its commit it holds its
\* writes in its transaction.
C8_CommitBeforeReturn ==
    \A c \in Clients :
        /\ Done(c, {"create", "update", "update_many", "delete", "delete_many"})
              => req[c].execs = 1 /\ req[c].commits = 1 /\ req[c].wset = {}
        /\ req[c].pc = "committed" => req[c].execs = 1 /\ req[c].commits = 1
        /\ req[c].pc = "executed" => req[c].execs = 1 /\ req[c].commits = 0
        /\ Done(c, {"get_list", "get_one", "get_many"})
              => req[c].execs = 1 /\ req[c].commits = 0

\* C8's case: one client's write has returned while the other's is between
\* its statement and its commit.
C8_Witness ==
    /\ Done("c1", {"update", "delete"})
    /\ req["c2"].pc = "executed" /\ req["c2"].op = "create"

\* The step ends a request of c with an error.
Fails(c) == req[c].pc # "failed" /\ req'[c].pc = "failed"

\* C9: a request holds a session from its statement to its end and none
\* after, whether it ends with a response or with an error out of execute or
\* commit, so no session is held when no request is in flight; and a step
\* that ends a request with an error leaves the table as it was.
C9_SessionReleased ==
    [][/\ \A c \in Clients :
             /\ req'[c].pc \in {"idle", "done", "failed"} => c \notin sessions'
             /\ req'[c].pc \in {"executed", "committed"} => c \in sessions'
       /\ (\A c \in Clients : req'[c].pc \in {"idle", "done", "failed"}) => sessions' = {}
       /\ (\E c \in Clients : Fails(c)) => db' = db]_vars

\* C9's case: a write failed at its commit while the other client holds a
\* session.
C9_Witness ==
    /\ req["c1"].pc = "failed" /\ IsWrite(req["c1"].op) /\ req["c1"].execs = 1
    /\ "c2" \in sessions

====
